---- MODULE Spec2Model ----
(***************************************************************************)
(* Model of kshitij10496/demeanor: the Flask routes of app.py, the price   *)
(* cache and the report artifacts written by main.py, and the numeric      *)
(* pipeline log returns -> z-scores -> comparison against the normal law.  *)
(*                                                                         *)
(* Four specifications  share the variables:                               *)
(*   Spec      the web routes, main() and the files they read and write;   *)
(*   CacheSpec sequential calls of fetch_historical_price_data;            *)
(*   RaceSpec  concurrent calls of fetch_historical_price_data;            *)
(*   PipeSpec  the numeric pipeline of main() on one price series, and     *)
(*             compute_distribution_stats on a z-score series.             *)
(***************************************************************************)
EXTENDS Integers, Sequences, FiniteSets, TLC

VARIABLES
    today,          \* the calendar day time.strftime('%Y-%m-%d') returns
    dataFiles,      \* data/{ticker}-{period}.csv: key -> content, present keys only
    dataWrites,     \* number of df.to_csv calls on each cache file
    providerCalls,  \* number of yf.Ticker(..).history(..) calls for each key
    fetchCalls,     \* number of fetch_historical_price_data calls for each key
    outputFiles,    \* the files that exist under output/
    renders,        \* number of times the program wrote each file under output/
    posted,         \* number of POST /analyze requests so far
    validPosted,    \* number of those whose 'index' field was a key of TICKERS
    calls,          \* the arguments analyze_index_for_web was invoked with so far
    mainRuns,       \* number of runs of main()
    response,       \* the last HTTP response
    workers,        \* the concurrent calls of fetch_historical_price_data in flight
    pc,             \* position in the numeric pipeline
    prices,         \* the Close column as fetched
    df,             \* the data frame: rows [date, Close, Delta]
    zs,             \* the Z-Score column
    report,         \* the rows printed by compute_distribution_stats
    raised          \* the exception that ended the pipeline, or NoError

vars == <<today, dataFiles, dataWrites, providerCalls, fetchCalls, outputFiles,
          renders, posted, validPosted, calls, mainRuns, response, workers, pc, prices,
          df, zs, report, raised>>

ioVars == <<today, dataFiles, dataWrites, providerCalls, fetchCalls, outputFiles,
            renders, posted, validPosted, calls, mainRuns, response, workers>>

pipeVars == <<pc, prices, df, zs, report, raised>>

(***************************************************************************)
(* Bounds.                                                                 *)
(***************************************************************************)
MaxDay == 2          \* calendar days the clock runs through
MaxRequests == 2     \* POST /analyze requests
MaxMainRuns == 2     \* runs of main()
MaxFetchCalls == 4   \* calls of fetch_historical_price_data in CacheSpec
MaxLen == 4          \* length of the price series the provider returns
MaxPrice == 4        \* largest closing price
MaxZLen == 2         \* length of a z-score series given to the comparator directly
MaxHalves == 5       \* largest |z| given to the comparator directly, in halves
NumWorkers == 2      \* concurrent calls of fetch_historical_price_data

(***************************************************************************)
(* main.py: TICKERS.                                                       *)
(***************************************************************************)
TickerOrder == <<"DJIA", "SP500", "NASDAQ", "NIFTY50">>

TICKERS ==
    ("DJIA" :> "^DJI") @@ ("SP500" :> "^GSPC") @@ ("NASDAQ" :> "^IXIC")
        @@ ("NIFTY50" :> "^NSEI")

Symbols == {TICKERS[n] : n \in DOMAIN TICKERS}

Periods == {"max", "1y"}

\* the tickers fetch_historical_price_data is called with directly
FetchTickers == {"^DJI", "^NSEI"}

CachePath(ticker, period) == [dir |-> "data", ticker |-> ticker, period |-> period]

CacheKeys == {CachePath(t, p) : t \in Symbols, p \in Periods}

Days == 1..MaxDay

\* request.form.get("index") returns None for a missing field
None == "<None>"

\* the form values posted: two of the four keys of TICKERS, and the invalid ones
FormValues == {"DJIA", "NIFTY50", None, "", "INVALID"}

\* the names requested under /plot/: a key of TICKERS and a name outside it
PlotNames == {"DJIA", "TEST_INDEX"}

PlotPath(name, day) == [dir |-> "output", name |-> name, day |-> day, suffix |-> "_z_scores.png"]

CsvPath(name, day) == [dir |-> "output", name |-> name, day |-> day, suffix |-> "_analysis.csv"]

OutputPaths ==
    {PlotPath(n, d) : n \in PlotNames \cup DOMAIN TICKERS, d \in Days}
        \cup {CsvPath(n, d) : n \in DOMAIN TICKERS, d \in Days}

exists(path, files) == path \in files

(***************************************************************************)
(* The files and the provider as one value, so that a function which       *)
(* fetches and writes can be applied several times within one handler.     *)
(***************************************************************************)
World ==
    [data |-> dataFiles, writes |-> dataWrites, provider |-> providerCalls,
     fetches |-> fetchCalls, out |-> outputFiles, renders |-> renders]

\* yf.Ticker(ticker).history(period): the provider's series as of `day`
history(ticker, period, day) == [ticker |-> ticker, period |-> period, asof |-> day]

\* main.py fetch_historical_price_data, without the cache presence check
fetch_always(w, ticker, period, day) ==
    LET key == CachePath(ticker, period)
        fetched == history(ticker, period, day)
    IN  [w EXCEPT !.fetches[key] = @ + 1,
                  !.provider[key] = @ + 1,
                  !.data = (key :> fetched) @@ w.data,
                  !.writes[key] = @ + 1]

\* main.py fetch_historical_price_data: the effect on the files and the provider
fetch_historical_price_data(w, ticker, period, day) ==
    LET key == CachePath(ticker, period)
    IN  IF exists(key, DOMAIN w.data)
        THEN [w EXCEPT !.fetches[key] = @ + 1]
        ELSE LET fetched == history(ticker, period, day)
             IN  [w EXCEPT !.fetches[key] = @ + 1,
                           !.provider[key] = @ + 1,
                           !.data = (key :> fetched) @@ w.data,
                           !.writes[key] = @ + 1]

\* main.py plot_z_scores: plt.savefig(fname) under today's name
plot_z_scores(w, ticker_name, day) ==
    LET fname == PlotPath(ticker_name, day)
    IN  [w EXCEPT !.out = @ \cup {fname}, !.renders[fname] = @ + 1]

\* main.py main, the body of the loop for one ticker: fetch, df.to_csv, plot
main_body(w, ticker, day) ==
    LET w1 == fetch_historical_price_data(w, TICKERS[ticker], "max", day)
        output_file == CsvPath(ticker, day)
        w2 == [w1 EXCEPT !.out = @ \cup {output_file}, !.renders[output_file] = @ + 1]
    IN  plot_z_scores(w2, ticker, day)

RECURSIVE main_loop(_, _, _)
main_loop(w, i, day) ==
    IF i > Len(TickerOrder) THEN w
    ELSE main_loop(main_body(w, TickerOrder[i], day), i + 1, day)

\* analyze_index_for_web: one analysis of one ticker, its report keyed by
\* (ticker, current date) and rendered only when today's file is absent
analyze_index_for_web(w, index_name, day) ==
    IF index_name \notin DOMAIN TICKERS THEN w
    ELSE IF exists(PlotPath(index_name, day), w.out) THEN w
    ELSE main_body(w, index_name, day)

(***************************************************************************)
(* main.py fetch_historical_price_data called concurrently: each call is a *)
(* worker that runs the statements of the function one at a time.          *)
(***************************************************************************)
Procs == 1..NumWorkers

IdleWorker == [pc |-> "idle", key |-> CachePath("", ""), df |-> history("", "", 0)]

SetWorld(w) ==
    /\ dataFiles' = w.data
    /\ dataWrites' = w.writes
    /\ providerCalls' = w.provider
    /\ fetchCalls' = w.fetches
    /\ outputFiles' = w.out
    /\ renders' = w.renders

\* an HTTP response: status, body, mimetype and the file send_file sends (if any)
Response(route, arg, status, body, mimetype, sent) ==
    [route |-> route, arg |-> arg, status |-> status, body |-> body,
     mimetype |-> mimetype, sent |-> sent]

NoResponse == Response("none", None, 0, "", "", {})

\* return "Invalid index selected", 400
InvalidIndexResponse(index_name) ==
    Response("analyze", index_name, 400, "Invalid index selected", "text/html", {})

\* return render_template("results.html", result=result); an exception of
\* analyze_index_for_web is not handled by the route
ResultsResponse(index_name) ==
    IF index_name \in DOMAIN TICKERS
    THEN Response("analyze", index_name, 200, "results.html", "text/html", {})
    ELSE Response("analyze", index_name, 500, "Internal Server Error", "text/html", {})

(***************************************************************************)
(* app.py: the routes.                                                     *)
(***************************************************************************)
\* the validity test of analyze with the emptiness test dropped
IsInvalidIndexNoEmpty(index_name) ==
    index_name = None \/ (index_name # "" /\ index_name \notin DOMAIN TICKERS)

\* app.py analyze: not index_name or index_name not in TICKERS
IsInvalidIndex(index_name) ==
    index_name = None \/ index_name = "" \/ index_name \notin DOMAIN TICKERS

\* POST /analyze keeping a per-day memo of the tickers already analysed
analyze_memo(index_name) ==
    /\ posted < MaxRequests
    /\ posted' = posted + 1
    /\ validPosted' = validPosted + (IF index_name \in DOMAIN TICKERS THEN 1 ELSE 0)
    /\ IF IsInvalidIndex(index_name)
       THEN /\ response' = InvalidIndexResponse(index_name)
            /\ UNCHANGED <<calls, dataFiles, dataWrites, providerCalls, fetchCalls,
                           outputFiles, renders>>
       ELSE /\ IF \E i \in 1..Len(calls) : calls[i] = index_name
               THEN UNCHANGED <<calls, dataFiles, dataWrites, providerCalls,
                                fetchCalls, outputFiles, renders>>
               ELSE /\ calls' = Append(calls, index_name)
                    /\ SetWorld(analyze_index_for_web(World, index_name, today))
            /\ response' = ResultsResponse(index_name)
    /\ UNCHANGED <<today, mainRuns>>
    /\ UNCHANGED workers
    /\ UNCHANGED pipeVars

\* app.py analyze: POST /analyze
analyze(index_name) ==
    /\ posted < MaxRequests
    /\ posted' = posted + 1
    /\ validPosted' = validPosted + (IF index_name \in DOMAIN TICKERS THEN 1 ELSE 0)
    /\ IF IsInvalidIndex(index_name)
       THEN /\ response' = InvalidIndexResponse(index_name)
            /\ UNCHANGED <<calls, dataFiles, dataWrites, providerCalls, fetchCalls,
                           outputFiles, renders>>
       ELSE /\ calls' = Append(calls, index_name)
            /\ SetWorld(analyze_index_for_web(World, index_name, today))
            /\ response' = ResultsResponse(index_name)
    /\ UNCHANGED <<today, mainRuns>>
    /\ UNCHANGED workers
    /\ UNCHANGED pipeVars

\* the plot lookup of serve_plot ignoring the date of the file
plot_exists_any_day(index_name) ==
    \E d \in Days : exists(PlotPath(index_name, d), outputFiles)

\* app.py serve_plot: os.path.exists(f"output/{index_name}/{today}_z_scores.png")
plot_exists(index_name) == exists(PlotPath(index_name, today), outputFiles)

\* app.py serve_plot: GET /plot/<index_name>
serve_plot(index_name) ==
    /\ response' =
         IF plot_exists(index_name)
         THEN Response("plot", index_name, 200, "<image bytes>", "image/png",
                       {PlotPath(index_name, today)})
         ELSE Response("plot", index_name, 404, "Plot not found", "text/html", {})
    /\ UNCHANGED <<today, dataFiles, dataWrites, providerCalls, fetchCalls,
                   outputFiles, renders, posted, validPosted, calls, mainRuns>>
    /\ UNCHANGED workers
    /\ UNCHANGED pipeVars

\* main.py main, as far as files and the provider go
main ==
    /\ mainRuns < MaxMainRuns
    /\ mainRuns' = mainRuns + 1
    /\ SetWorld(main_loop(World, 1, today))
    /\ UNCHANGED <<today, posted, validPosted, calls, response>>
    /\ UNCHANGED workers
    /\ UNCHANGED pipeVars

RECURSIVE Sum(_, _)
Sum(f, S) ==
    IF S = {} THEN 0
    ELSE LET x == CHOOSE y \in S : TRUE IN f[x] + Sum(f, S \ {x})

TotalFetchCalls == Sum(fetchCalls, CacheKeys)

\* a direct call of fetch_historical_price_data(ticker, period)
Fetch(ticker, period) ==
    /\ TotalFetchCalls < MaxFetchCalls
    /\ SetWorld(fetch_historical_price_data(World, ticker, period, today))
    /\ UNCHANGED <<today, posted, validPosted, calls, mainRuns, response>>
    /\ UNCHANGED workers
    /\ UNCHANGED pipeVars

\* test_app.py test_plot_with_mock_file: a plot file put in place from outside
CreatePlotFile(name) ==
    /\ ~ exists(PlotPath(name, today), outputFiles)
    /\ outputFiles' = outputFiles \cup {PlotPath(name, today)}
    /\ UNCHANGED <<today, dataFiles, dataWrites, providerCalls, fetchCalls, renders,
                   posted, validPosted, calls, mainRuns, response>>
    /\ UNCHANGED workers
    /\ UNCHANGED pipeVars

\* test_app.py test_plot_with_mock_file: os.remove(plot_path)
RemovePlotFile(name) ==
    /\ exists(PlotPath(name, today), outputFiles)
    /\ outputFiles' = outputFiles \ {PlotPath(name, today)}
    /\ UNCHANGED <<today, dataFiles, dataWrites, providerCalls, fetchCalls, renders,
                   posted, validPosted, calls, mainRuns, response>>
    /\ UNCHANGED workers
    /\ UNCHANGED pipeVars

\* midnight: time.strftime('%Y-%m-%d') returns the next date
NextDay ==
    /\ today < MaxDay
    /\ today' = today + 1
    /\ UNCHANGED <<dataFiles, dataWrites, providerCalls, fetchCalls, outputFiles,
                   renders, posted, validPosted, calls, mainRuns, response>>
    /\ UNCHANGED workers
    /\ UNCHANGED pipeVars

PipeIdle ==
    /\ pc = "idle"
    /\ prices = <<>>
    /\ df = <<>>
    /\ zs = <<>>
    /\ report = <<>>
    /\ raised = "NoError"

Init ==
    /\ today = 1
    /\ dataFiles = <<>>
    /\ dataWrites = [k \in CacheKeys |-> 0]
    /\ providerCalls = [k \in CacheKeys |-> 0]
    /\ fetchCalls = [k \in CacheKeys |-> 0]
    /\ outputFiles = {}
    /\ renders = [p \in OutputPaths |-> 0]
    /\ posted = 0
    /\ validPosted = 0
    /\ calls = <<>>
    /\ mainRuns = 0
    /\ response = NoResponse
    /\ workers = [p \in Procs |-> IdleWorker]
    /\ PipeIdle

Next ==
    \/ \E v \in FormValues : analyze(v)
    \/ \E n \in PlotNames : serve_plot(n)
    \/ main
    \/ CreatePlotFile("TEST_INDEX")
    \/ RemovePlotFile("TEST_INDEX")
    \/ NextDay

Spec == Init /\ [][Next]_vars

\* the presence check of a fetch that treats a fetch in flight for the same
\* key as a present file
cache_file_claimed(p, key) ==
    \/ exists(key, DOMAIN dataFiles)
    \/ \E q \in Procs \ {p} : workers[q].key = key /\ workers[q].pc \in {"call", "write"}

\* os.path.exists(f"data/{ticker}-{period}.csv") as worker p evaluates it
cache_file_exists(p, key) == exists(key, DOMAIN dataFiles)

\* line 30: a call enters the function and tests whether the cache file exists
RaceCheck(p, ticker, period) ==
    /\ workers[p].pc = "idle"
    /\ LET key == CachePath(ticker, period)
       IN  /\ fetchCalls' = [fetchCalls EXCEPT ![key] = @ + 1]
           /\ workers' = [workers EXCEPT ![p].key = key,
                             ![p].pc = IF cache_file_exists(p, key) THEN "read" ELSE "call"]
    /\ UNCHANGED <<today, dataFiles, dataWrites, providerCalls, outputFiles, renders,
                   posted, validPosted, calls, mainRuns, response>>
    /\ UNCHANGED pipeVars

\* line 31: df = pd.read_csv(...); the file was seen present and is never removed
RaceRead(p) ==
    /\ workers[p].pc = "read"
    /\ workers' = [workers EXCEPT ![p].df = dataFiles[workers[p].key], ![p].pc = "done"]
    /\ UNCHANGED <<today, dataFiles, dataWrites, providerCalls, fetchCalls, outputFiles,
                   renders, posted, validPosted, calls, mainRuns, response>>
    /\ UNCHANGED pipeVars

\* lines 33-34: data = yf.Ticker(ticker); df = data.history(period=period)
RaceCall(p) ==
    /\ workers[p].pc = "call"
    /\ LET key == workers[p].key
       IN  /\ providerCalls' = [providerCalls EXCEPT ![key] = @ + 1]
           /\ workers' = [workers EXCEPT ![p].df = history(key.ticker, key.period, today),
                                         ![p].pc = "write"]
    /\ UNCHANGED <<today, dataFiles, dataWrites, fetchCalls, outputFiles, renders,
                   posted, validPosted, calls, mainRuns, response>>
    /\ UNCHANGED pipeVars

\* lines 37-38: os.makedirs("data", exist_ok=True); df.to_csv(...)
RaceWrite(p) ==
    /\ workers[p].pc = "write"
    /\ LET key == workers[p].key
       IN  /\ dataFiles' = (key :> workers[p].df) @@ dataFiles
           /\ dataWrites' = [dataWrites EXCEPT ![key] = @ + 1]
    /\ workers' = [workers EXCEPT ![p].pc = "done"]
    /\ UNCHANGED <<today, providerCalls, fetchCalls, outputFiles, renders,
                   posted, validPosted, calls, mainRuns, response>>
    /\ UNCHANGED pipeVars

RaceNext ==
    \/ \E p \in Procs, t \in FetchTickers, per \in Periods : RaceCheck(p, t, per)
    \/ \E p \in Procs : RaceRead(p)
    \/ \E p \in Procs : RaceCall(p)
    \/ \E p \in Procs : RaceWrite(p)
    \/ NextDay

RaceSpec == Init /\ [][RaceNext]_vars

CacheNext ==
    \/ \E t \in FetchTickers, p \in Periods : Fetch(t, p)
    \/ NextDay

CacheSpec == Init /\ [][CacheNext]_vars


(***************************************************************************)
(* main.py: the numeric pipeline.  A float is a record: [k |-> "num", v]   *)
(* a finite number (log prices and returns in hundredths), [k |-> "inf",   *)
(* v] plus or minus infinity, [k |-> "nan"] not-a-number.  A z-score is    *)
(* kept exact as sgn * sqrt(p / q), so that comparisons with a threshold   *)
(* are decided without rounding: [k |-> "num", sgn, p, q].                 *)
(***************************************************************************)
Num(v) == [k |-> "num", v |-> v]

NaN == [k |-> "nan", v |-> 0]

Inf(sign) == [k |-> "inf", v |-> sign]

IsNaN(x) == x.k = "nan"

\* 100 * ln(x) for x = 1..8, rounded so that ln(x * y) = ln(x) + ln(y)
LnTable == <<0, 69, 110, 138, 161, 179, 195, 207>>

\* np.log: -inf at 0 and nan below 0 (a warning, no exception), nan at nan
log(x) ==
    IF IsNaN(x) THEN NaN
    ELSE IF x.v > 0 THEN Num(LnTable[x.v])
    ELSE IF x.v = 0 THEN Inf(-1)
    ELSE NaN

\* float subtraction a - b
Sub(a, b) ==
    IF IsNaN(a) \/ IsNaN(b) THEN NaN
    ELSE IF a.k = "inf" /\ b.k = "inf" THEN (IF a.v = b.v THEN NaN ELSE a)
    ELSE IF a.k = "inf" THEN a
    ELSE IF b.k = "inf" THEN Inf(0 - b.v)
    ELSE Num(a.v - b.v)

\* df["Close"].shift(1): the previous row's Close, NaN on the first row
shift(d, i) == IF i = 1 THEN NaN ELSE Num(d[i - 1].Close)

\* the data frame of a fetched Close column, indexed by date
Frame(ps) == [i \in 1..Len(ps) |-> [date |-> i, Close |-> ps[i]]]

\* main.py compute_daily_price_change
compute_daily_price_change(d) ==
    [i \in 1..Len(d) |->
        [date |-> d[i].date, Close |-> d[i].Close,
         Delta |-> Sub(log(Num(d[i].Close)), log(shift(d, i)))]]

HasValue(row) == ~ IsNaN(row.Delta)

\* df.dropna() leaving every row in place
dropna_none(d) == d

\* df.dropna(): the rows without a NaN (an infinite value is not NA)
dropna(d) == SelectSeq(d, HasValue)

Column(d) == [i \in 1..Len(d) |-> d[i].Delta]

Sign(x) == IF x > 0 THEN 1 ELSE IF x < 0 THEN -1 ELSE 0

ZVal(sgn, p, q) == [k |-> "num", sgn |-> sgn, p |-> p, q |-> q]

ZNaN == [k |-> "nan", sgn |-> 0, p |-> 0, q |-> 1]

\* main.py z_score: (s - s.mean()) / s.std(), mean and std skipping NaN, std
\* the sample form (n - 1).  With m = S / n and std^2 = (n*Q - S^2) / (n*(n-1)),
\* z^2 = (n*v - S)^2 * (n - 1) / (n * (n*Q - S^2)).
z_score(s) ==
    LET valid == {i \in 1..Len(s) : ~ IsNaN(s[i])}
        n == Cardinality(valid)
        infinite == \E i \in valid : s[i].k = "inf"
        val == [i \in valid |-> s[i].v]
        sq == [i \in valid |-> s[i].v * s[i].v]
        S == Sum(val, valid)
        Q == Sum(sq, valid)
        varNum == n * Q - S * S
    IN  [i \in 1..Len(s) |->
            IF IsNaN(s[i]) \/ infinite THEN ZNaN      \* mean is inf or nan, std is nan
            ELSE IF n < 2 THEN ZNaN                   \* std of one value: 0 / 0
            ELSE IF varNum = 0 THEN ZNaN              \* (v - mean) / std = 0 / 0
            ELSE ZVal(Sign(n * s[i].v - S),
                      (n * s[i].v - S) * (n * s[i].v - S) * (n - 1),
                      n * varNum)]

\* main.py compute_distribution_stats: thresholds
thresholds == <<1, 2, 3, 4, 5, 6, 7, 8, 9, 10>>

\* 2 * (1 - st.norm.cdf(threshold)) in parts per million
expected_prob == <<317311, 45500, 2700, 63, 1, 0, 0, 0, 0, 0>>

\* z_scores.abs(): NaN stays NaN
abs(z) == IF z.k = "nan" THEN z ELSE ZVal(z.sgn * z.sgn, z.p, z.q)

\* z > threshold for z = sgn * sqrt(p / q); any comparison with NaN is False
gt(z, threshold) ==
    /\ z.k = "num"
    /\ z.sgn = 1
    /\ z.p > threshold * threshold * z.q

\* the count of (z_scores.abs() >= threshold)
observed_count_ge(z_scores, threshold) ==
    Cardinality({i \in 1..Len(z_scores) :
                    /\ z_scores[i].k = "num"
                    /\ z_scores[i].p >= threshold * threshold * z_scores[i].q})

\* (z_scores.abs() > threshold).sum()
observed_count(z_scores, threshold) ==
    Cardinality({i \in 1..Len(z_scores) : gt(abs(z_scores[i]), threshold)})

\* a / b * 100 on numpy numbers: 0 / 0 is nan with a warning, no exception
Pct(a, b) ==
    IF b = 0 THEN [k |-> "nan", n |-> 0, d |-> 1]
    ELSE [k |-> "num", n |-> a * 100, d |-> b]

\* main.py compute_distribution_stats: the row printed for one threshold
stats_row(z_scores, i) ==
    LET total_days == Len(z_scores)
        threshold == thresholds[i]
        count == observed_count(z_scores, threshold)
    IN  [threshold |-> threshold,
         observed_count |-> count,
         observed_pct |-> Pct(count, total_days),
         expected_count_ppm |-> expected_prob[i] * total_days,
         expected_pct_ppm |-> expected_prob[i] * 100,
         diff_count_ppm |-> count * 1000000 - expected_prob[i] * total_days]

\* main.py compute_distribution_stats: the rows printed
compute_distribution_stats(z_scores) ==
    [i \in 1..Len(thresholds) |-> stats_row(z_scores, i)]

RECURSIVE SeqsUpTo(_, _)
SeqsUpTo(S, n) ==
    IF n = 0 THEN {<<>>}
    ELSE LET shorter == SeqsUpTo(S, n - 1)
         IN  shorter \cup {Append(q, x) : q \in {r \in shorter : Len(r) = n - 1}, x \in S}

\* the Close columns the provider may return
PriceSeries == SeqsUpTo((-1)..MaxPrice, MaxLen)

FromHalves(m) == IF m = MaxHalves + 1 THEN ZNaN ELSE ZVal(Sign(m), m * m, 4)

\* the z-score series given to compute_distribution_stats directly: entries
\* m / 2 for |m| <= MaxHalves, and NaN
ZSeries ==
    {[i \in 1..Len(q) |-> FromHalves(q[i])] :
        q \in SeqsUpTo((0 - MaxHalves)..(MaxHalves + 1), MaxZLen)}

(***************************************************************************)
(* main.py main: the body of the loop for the first ticker, step by step.  *)
(***************************************************************************)
PipeTicker == TickerOrder[1]

\* df = fetch_historical_price_data(symbol, period="max")
FetchPrices ==
    /\ pc = "start"
    /\ \E ps \in PriceSeries :
          /\ prices' = ps
          /\ df' = Frame(ps)
    /\ SetWorld(fetch_historical_price_data(World, TICKERS[PipeTicker], "max", today))
    /\ pc' = "fetched"
    /\ UNCHANGED <<today, posted, validPosted, calls, mainRuns, response, workers>>
    /\ UNCHANGED <<zs, report, raised>>

\* df = compute_daily_price_change(df)
ComputeDailyPriceChange ==
    /\ pc = "fetched"
    /\ df' = compute_daily_price_change(df)
    /\ pc' = "delta"
    /\ UNCHANGED <<prices, zs, report, raised>>
    /\ UNCHANGED ioVars

\* df = df.dropna()
DropNa ==
    /\ pc = "delta"
    /\ df' = dropna(df)
    /\ pc' = "clean"
    /\ UNCHANGED <<prices, zs, report, raised>>
    /\ UNCHANGED ioVars

\* df["Z-Score"] = z_score(df["Delta"])
ZScore ==
    /\ pc = "clean"
    /\ zs' = z_score(Column(df))
    /\ pc' = "scored"
    /\ UNCHANGED <<prices, df, report, raised>>
    /\ UNCHANGED ioVars

\* df.to_csv(output_file); plot_z_scores(df, ticker); the basic statistics,
\* where df.index[0] raises IndexError on an empty frame
SaveAndPlot ==
    /\ pc = "scored"
    /\ LET output_file == CsvPath(PipeTicker, today)
           w == [World EXCEPT !.out = @ \cup {output_file},
                              !.renders[output_file] = @ + 1]
       IN  SetWorld(plot_z_scores(w, PipeTicker, today))
    /\ IF Len(df) = 0
       THEN /\ raised' = "IndexError"
            /\ pc' = "failed"
       ELSE /\ raised' = raised
            /\ pc' = "summarised"
    /\ UNCHANGED <<today, posted, validPosted, calls, mainRuns, response, workers>>
    /\ UNCHANGED <<prices, df, zs, report>>

\* compute_distribution_stats(df["Z-Score"], ticker)
DistributionStats ==
    /\ pc = "summarised"
    /\ report' = compute_distribution_stats(zs)
    /\ pc' = "done"
    /\ UNCHANGED <<prices, df, zs, raised>>
    /\ UNCHANGED ioVars

\* a direct call compute_distribution_stats(z_scores, ticker_name)
CallDistributionStats ==
    /\ pc = "start"
    /\ \E z \in ZSeries :
          /\ zs' = z
          /\ report' = compute_distribution_stats(z)
    /\ pc' = "returned"
    /\ UNCHANGED <<prices, df, raised>>
    /\ UNCHANGED ioVars

PipeInit ==
    /\ today = 1
    /\ dataFiles = <<>>
    /\ dataWrites = [k \in CacheKeys |-> 0]
    /\ providerCalls = [k \in CacheKeys |-> 0]
    /\ fetchCalls = [k \in CacheKeys |-> 0]
    /\ outputFiles = {}
    /\ renders = [p \in OutputPaths |-> 0]
    /\ posted = 0
    /\ validPosted = 0
    /\ calls = <<>>
    /\ mainRuns = 0
    /\ response = NoResponse
    /\ workers = [p \in Procs |-> IdleWorker]
    /\ pc = "start"
    /\ prices = <<>>
    /\ df = <<>>
    /\ zs = <<>>
    /\ report = <<>>
    /\ raised = "NoError"

PipeNext ==
    \/ FetchPrices
    \/ ComputeDailyPriceChange
    \/ DropNa
    \/ ZScore
    \/ SaveAndPlot
    \/ DistributionStats
    \/ CallDistributionStats

PipeSpec == PipeInit /\ [][PipeNext]_vars

(***************************************************************************)
(* Claims about the routes and the files.                                  *)
(***************************************************************************)
ValidNames == {"DJIA", "SP500", "NASDAQ", "NIFTY50"}

IsValidName(v) == v \in ValidNames

\* the step is a POST /analyze with form value v
Posted(v) == posted' = posted + 1 /\ response'.route = "analyze" /\ response'.arg = v

\* C1: a POST /analyze whose 'index' field is missing, empty or no key of
\* TICKERS is answered 400 'Invalid index selected', and the analysis function
\* is not invoked: no fetch, no cache write, no file written under output/.
C1_InvalidIndexRejected ==
    [][\A v \in FormValues :
          (Posted(v) /\ ~ IsValidName(v)) =>
              /\ response'.status = 400
              /\ response'.body = "Invalid index selected"
              /\ calls' = calls
              /\ UNCHANGED <<dataFiles, dataWrites, providerCalls, fetchCalls,
                             outputFiles, renders>>]_vars

C1_Witness ==
    /\ posted = 2
    /\ calls = <<"DJIA">>
    /\ response.route = "analyze"
    /\ response.arg = ""
    /\ response.status = 400

\* C2: GET /plot/{ticker} answers 200 with the image of today's plot file,
\* mimetype image/png, exactly when output/{ticker}/{today}_z_scores.png exists
\* at the time of the request, and 404 'Plot not found' otherwise, for any
\* ticker string; a plot of another date is never sent.
C2_PlotServedIffTodaysFileExists ==
    [][(response' # response /\ response'.route = "plot") =>
          IF PlotPath(response'.arg, today) \in outputFiles
          THEN /\ response'.status = 200
               /\ response'.mimetype = "image/png"
               /\ response'.sent = {PlotPath(response'.arg, today)}
          ELSE /\ response'.status = 404
               /\ response'.body = "Plot not found"
               /\ response'.sent = {}]_vars

C2_Witness ==
    /\ today = 2
    /\ response.route = "plot"
    /\ response.arg = "DJIA"
    /\ response.status = 404
    /\ PlotPath("DJIA", 1) \in outputFiles
    /\ PlotPath("DJIA", 2) \notin outputFiles
    /\ PlotPath("TEST_INDEX", 2) \in outputFiles

C4_CacheUsedAsIs ==
    /\ [](\A k \in CacheKeys : providerCalls[k] <= 1)
    /\ [][\A k \in CacheKeys :
            IF k \in DOMAIN dataFiles
            THEN /\ k \in DOMAIN dataFiles'
                 /\ dataFiles'[k] = dataFiles[k]
                 /\ providerCalls'[k] = providerCalls[k]
                 /\ dataWrites'[k] = dataWrites[k]
            ELSE fetchCalls'[k] # fetchCalls[k] =>
                     /\ providerCalls'[k] = providerCalls[k] + 1
                     /\ k \in DOMAIN dataFiles']_vars

C4_Witness ==
    /\ today = 2
    /\ \E k \in CacheKeys :
          /\ fetchCalls[k] >= 2
          /\ providerCalls[k] = 1
          /\ k \in DOMAIN dataFiles
          /\ dataFiles[k].asof = 1
          /\ \E k2 \in CacheKeys :
                /\ k2.ticker = k.ticker
                /\ k2.period # k.period
                /\ k2 \in DOMAIN dataFiles
                /\ dataFiles[k2].asof = 2

\* C5 (as claimed): across the analysis invocations for one ticker on one
\* calendar day, the plot and the report are written only once.
C5_RenderedOncePerDay == \A p \in OutputPaths : renders[p] <= 1

(***************************************************************************)
(* Claims about the numeric pipeline.                                      *)
(***************************************************************************)
AllPositive(ps) == \A i \in 1..Len(ps) : ps[i] > 0

C7_NonPositivePriceRaises ==
    (pc \in {"delta", "clean", "scored", "summarised", "failed", "done"}
        /\ ~ AllPositive(prices)) =>
        /\ raised = "InvalidInputError"
        /\ zs = <<>>

\* C8 (as claimed): if all log returns are identical, so that the standard
\* deviation is 0, the z-score engine fails with DegenerateDistributionError.
C8_ZeroVarianceRaises ==
    (pc \in {"scored", "summarised", "done"}
        /\ AllPositive(prices)
        /\ Len(df) >= 2
        /\ \A i, j \in 1..Len(df) : df[i].Delta = df[j].Delta) =>
        raised = "DegenerateDistributionError"

\* C9 (as claimed): given an empty z-score series the comparator fails with
\* EmptySeriesError before any row is computed and emits no report row.
C9_EmptySeriesRaises ==
    (pc = "returned" /\ Len(zs) = 0) =>
        /\ raised = "EmptySeriesError"
        /\ report = <<>>

\* |z| > t for z = sgn * sqrt(p / q), decided on the squares
Exceeds(z, t) == z.k = "num" /\ z.sgn # 0 /\ z.p > t * t * z.q

\* C10: for a non-empty z-score series the comparator prints one row per
\* threshold, in the order 1..10, whose observed count is the number of entries
\* with |z| strictly greater than the threshold, whatever their sign; the counts
\* never exceed n and do not increase from one threshold to the next.
C10_ObservedCounts ==
    (pc \in {"done", "returned"} /\ Len(zs) >= 1) =>
        /\ Len(report) = 10
        /\ \A i \in 1..10 :
              /\ report[i].threshold = i
              /\ report[i].observed_count =
                     Cardinality({j \in 1..Len(zs) : Exceeds(zs[j], i)})
              /\ report[i].observed_count <= Len(zs)
              /\ i < 10 => report[i + 1].observed_count <= report[i].observed_count

C10_Witness ==
    /\ pc = "returned"
    /\ Len(zs) = 2
    /\ zs[1] = ZVal(1, 4, 4)
    /\ zs[2] = ZVal(-1, 25, 4)
    /\ report[1].observed_count = 1
    /\ report[2].observed_count = 1
    /\ report[3].observed_count = 0

(***************************************************************************)
(* Claims about concurrent fetches.                                        *)
(***************************************************************************)
\* C11: no locking protects the price cache.  A fetch that finds no cache file
\* goes on to the provider whatever the other fetches are doing, each call
\* that reached the provider writes the cache file whether or not it exists by
\* then, and no step of one fetch holds back or changes another.  So two
\* concurrent fetches of one uncached key can both see the file absent, both
\* contact the provider and both write the file, the later write replacing
\* the earlier one (C11_Witness).
C11_NoLockOnCache ==
    [][\A p \in Procs :
          /\ (workers[p].pc = "idle" /\ workers'[p].pc # "idle") =>
                (workers'[p].pc = "call" <=> workers'[p].key \notin DOMAIN dataFiles)
          /\ (workers[p].pc = "call" /\ workers'[p].pc # "call") =>
                /\ workers'[p].pc = "write"
                /\ providerCalls'[workers[p].key] = providerCalls[workers[p].key] + 1
          /\ (workers[p].pc = "write" /\ workers'[p].pc # "write") =>
                /\ dataFiles'[workers[p].key] = workers[p].df
                /\ dataWrites'[workers[p].key] = dataWrites[workers[p].key] + 1
          /\ workers'[p] # workers[p] =>
                \A q \in Procs \ {p} : workers'[q] = workers[q]]_vars

C11_Witness ==
    \E k \in CacheKeys :
        /\ \A p \in {1, 2} : workers[p].pc = "done" /\ workers[p].key = k
        /\ providerCalls[k] = 2
        /\ dataWrites[k] = 2
        /\ workers[1].df.asof = 2
        /\ workers[2].df.asof = 1
        /\ dataFiles[k] = workers[2].df

====
